---- MODULE Spec2Model ----
(***************************************************************************)
(* Model of the muvera-poc retrieval pipeline:                             *)
(*   src/test2.py     the ingestion run (download, load, connect, rebuild  *)
(*                    the collection, embed and batch-insert the corpus)   *)
(*   src/evaluate.py  the evaluation run (load, connect, get collection,   *)
(*                    embed and search every query, evaluate the results)  *)
(* Both scripts define get_embedding_for_text; the two copies differ only  *)
(* in the names their module imports bind (evaluate.py imports json,       *)
(* test2.py does not).                                                     *)
(***************************************************************************)
EXTENDS Integers, Sequences, FiniteSets, TLC

VARIABLES
    script,                 \* which program runs: "test2" or "evaluate"
    pc,                     \* position of the script
    E5_VECTOR_KEY_IN_RESPONSE, \* the configured extraction key ("None" for None)
    client,                 \* "None", "open" or "closed"
    closeCount,             \* number of client.close() calls made
    exitStatus,             \* process exit status once pc = "exited", else -1
    fatal,                  \* the fatal error the script logged, or "none"
    uncaught,               \* class of the exception that ended the script, or "none"
    corpus,                 \* test2: the corpus, a sequence of distinct doc ids
    collection,             \* test2: the Weaviate collection COLLECTION_NAME
    prior,                  \* test2: the collection as the run found it
    batch,                  \* test2: objects queued in the dynamic batch, not yet sent
    docIdx,                 \* test2: number of corpus items the loop has taken
    num_inserted,           \* test2
    num_skipped,            \* test2
    embedFailed,            \* test2: doc ids whose embedding call gave no vector
    addFailed,              \* test2: doc ids whose batch.add_object raised
    flushFailed,            \* test2: doc ids the batch failed to send
    queries,                \* evaluate: the queries, a sequence of distinct query ids
    queryIdx,               \* evaluate: number of queries the loop has taken
    results,                \* evaluate: query id -> (doc id -> score)
    num_queries_processed,  \* evaluate
    num_queries_skipped,    \* evaluate
    searchFailed,           \* evaluate: query ids whose search step raised
    evaluateInvoked,        \* evaluate: retriever.evaluate was called
    response,               \* embedding call: the HTTP outcome of requests.post
    embedding,              \* embedding call: what get_embedding_for_text gave back
    objects,                \* result assembly: response.objects of one near_vector call
    assembled               \* result assembly: what reading objects gave

vars == <<script, pc, E5_VECTOR_KEY_IN_RESPONSE, client, closeCount, exitStatus,
          fatal, uncaught, corpus, collection, prior, batch, docIdx, num_inserted,
          num_skipped, embedFailed, addFailed, flushFailed, queries, queryIdx,
          results, num_queries_processed, num_queries_skipped, searchFailed,
          evaluateInvoked, response, embedding, objects, assembled>>

runVars == <<script, pc, E5_VECTOR_KEY_IN_RESPONSE, client, closeCount, exitStatus,
             fatal, uncaught>>
ingestVars == <<corpus, collection, prior, batch, docIdx, num_inserted, num_skipped,
                embedFailed, addFailed, flushFailed>>
searchVars == <<queries, queryIdx, results, num_queries_processed,
                num_queries_skipped, searchFailed, evaluateInvoked>>
embedVars == <<response, embedding>>
assemblyVars == <<objects, assembled>>

(***************************************************************************)
(* Bounds of the model.                                                    *)
(***************************************************************************)
MaxDim == 2        \* longest JSON list in a response body
MaxDocs == 3       \* largest corpus of an ingestion run
MaxHits == 5       \* most hits of one near_vector call (result assembly alone)
MaxRunHits == 2    \* most hits of one near_vector call within an evaluation run

(***************************************************************************)
(* JSON response bodies.  A list element is written as its JSON literal:   *)
(* "0.1" and "7" are numbers, "\"x\"" is a string.                         *)
(***************************************************************************)
Numbers == {"0.1", "7"}
NonNumbers == {"\"x\""}
Elements == Numbers \cup NonNumbers

SeqUpTo(S, n) == UNION {[1..k -> S] : k \in 0..n}

JsonLists == SeqUpTo(Elements, MaxDim)

\* the vectors a well-behaved endpoint can encode, the empty one included
Vectors == SeqUpTo(Numbers, MaxDim)

\* what response.json() can give: a list, a one-key or empty dict, or a scalar.
\* kind: the JSON type of the body; for kind "dict": key is its only key ("-"
\* when the dict is empty), vkind the JSON type of the value under it; items is
\* the list (the body itself, or the value under key) when that is a list.
ValueKinds == {"list", "str", "num", "null", "dict"}
DictKeys == {"vector", "embedding", "data"}

ListBody(items) == [kind |-> "list", key |-> "-", vkind |-> "-", items |-> items]
DictBody(key, vkind, items) ==
    [kind |-> "dict", key |-> key, vkind |-> vkind, items |-> items]
ScalarBody(kind) == [kind |-> kind, key |-> "-", vkind |-> "-", items |-> <<>>]

Bodies ==
    {ListBody(l) : l \in JsonLists}
    \cup {DictBody(k, "list", l) : k \in DictKeys, l \in JsonLists}
    \cup {DictBody(k, vk, <<>>) : k \in DictKeys, vk \in ValueKinds \ {"list"}}
    \cup {DictBody("-", "-", <<>>)}
    \cup {ScalarBody(k) : k \in {"str", "num", "null"}}

\* the outcome of requests.post + raise_for_status + response.json():
\*   "timeout"         requests.exceptions.Timeout
\*   "neterr"          another requests.exceptions.RequestException
\*   "non2xx"          raise_for_status raises HTTPError
\*   "badjson"         response.json() raises requests' JSONDecodeError, a
\*                     RequestException (requests >= 2.27)
\*   "badjson_plain"   response.json() raises a JSONDecodeError that is only a
\*                     ValueError (requests < 2.27)
\*   "ok"              response.json() returned body
FailureStatuses == {"timeout", "neterr", "non2xx", "badjson", "badjson_plain"}
NoBody == ScalarBody("null")
Responses ==
    {[status |-> s, body |-> NoBody] : s \in FailureStatuses}
    \cup {[status |-> "ok", body |-> b] : b \in Bodies}

KeyConfigs == {"vector", "embedding", "None"}

(***************************************************************************)
(* get_embedding_for_text                                                  *)
(***************************************************************************)
\* what the function gives back: a vector, None, or an exception it lets out
Vector(v) == [tag |-> "vector", value |-> v, exc |-> "-"]
None == [tag |-> "None", value |-> <<>>, exc |-> "-"]
Raise(e) == [tag |-> "raise", value |-> <<>>, exc |-> e]

\* the names the script's imports bind
JsonImported(s) == s = "evaluate"

\* the exception the try body raises before a vector is extracted, or "none"
TransportException(resp) ==
    CASE resp.status = "timeout" -> "Timeout"
      [] resp.status = "neterr" -> "ConnectionError"
      [] resp.status = "non2xx" -> "HTTPError"
      [] resp.status = "badjson" -> "requests.JSONDecodeError"
      [] resp.status = "badjson_plain" -> "json.JSONDecodeError"
      [] OTHER -> "none"

IsRequestException(e) ==
    e \in {"Timeout", "ConnectionError", "HTTPError", "requests.JSONDecodeError"}

\* the except clauses, tried in order.  The third clause evaluates the
\* expression json.JSONDecodeError: where json is not imported that raises
\* NameError out of the function.
HandleException(s, e) ==
    IF e = "Timeout" THEN None
    ELSE IF IsRequestException(e) THEN None
    ELSE IF ~JsonImported(s) THEN Raise("NameError")
    ELSE IF e = "json.JSONDecodeError" THEN None
    ELSE None

\* the value the key/no-key branch extracts from json_response:
\*   [kind |-> "missing"]         .get gave None
\*   [kind |-> "AttributeError"]  json_response has no .get
\*   otherwise the JSON type of the value, with the list when it is one
Extracted(kind, items) == [kind |-> kind, items |-> items]

ExtractFalsyMissing(key, body) ==
    IF key # "None"
    THEN IF body.kind # "dict" THEN Extracted("AttributeError", <<>>)
         ELSE IF body.key # key \/ body.vkind = "null" THEN Extracted("missing", <<>>)
         ELSE IF body.vkind = "list" /\ body.items = <<>> THEN Extracted("missing", <<>>)
         ELSE Extracted(body.vkind, body.items)
    ELSE IF body.kind = "dict" THEN Extracted("dict", <<>>)
         ELSE Extracted(body.kind, body.items)

ExtractVector(key, body) ==
    IF key # "None"
    THEN IF body.kind # "dict" THEN Extracted("AttributeError", <<>>)
         ELSE IF body.key # key \/ body.vkind = "null" THEN Extracted("missing", <<>>)
         ELSE Extracted(body.vkind, body.items)
    ELSE IF body.kind = "dict" THEN Extracted("dict", <<>>)
         ELSE Extracted(body.kind, body.items)

\* isinstance(vector, list) or a float numpy array; a JSON value is never the latter
IsVectorValue(x) == x.kind = "list"

get_embedding_for_text(s, key, resp) ==
    IF TransportException(resp) # "none"
    THEN HandleException(s, TransportException(resp))
    ELSE LET x == ExtractVector(key, resp.body) IN
         IF x.kind = "AttributeError" THEN HandleException(s, "AttributeError")
         ELSE IF x.kind = "missing" THEN None
         ELSE IF ~IsVectorValue(x) THEN None
         ELSE Vector(x.items)

(***************************************************************************)
(* Values shared by the runs.                                              *)
(***************************************************************************)
DocIdSeq == <<"d1", "d2", "d3", "d4">>
DocIds == {DocIdSeq[i] : i \in 1..Len(DocIdSeq)}
QueryIdSeq == <<"q1", "q2">>
QueryIds == {QueryIdSeq[i] : i \in 1..Len(QueryIdSeq)}
Scores == {1, 2}

AbsentCollection == [exists |-> FALSE, schema |-> "-", objects |-> <<>>]
FixedSchema == "title,text,original_doc_id"
\* what the collection can hold before a run: nothing, an earlier ingestion, or
\* a collection of another schema
PriorCollections ==
    {AbsentCollection}
    \cup {[exists |-> TRUE, schema |-> sc, objects |-> o] :
            sc \in {FixedSchema, "stale"},
            o \in {<<>>, <<"d1">>, <<"d1", "d2">>, <<"d9">>}}

NotCalled == [tag |-> "-", value |-> <<>>, exc |-> "-"]
NotAssembled == [mapping |-> <<>>, raised |-> FALSE, done |-> FALSE]

\* the values of the variables a specification does not use
IdleRun ==
    /\ client = "None" /\ closeCount = 0 /\ exitStatus = -1
    /\ fatal = "none" /\ uncaught = "none"
IdleIngest ==
    /\ corpus = <<>> /\ batch = <<>> /\ docIdx = 0
    /\ num_inserted = 0 /\ num_skipped = 0
    /\ embedFailed = {} /\ addFailed = {} /\ flushFailed = {}
IdleSearch ==
    /\ queries = <<>> /\ queryIdx = 0 /\ results = <<>>
    /\ num_queries_processed = 0 /\ num_queries_skipped = 0
    /\ searchFailed = {} /\ evaluateInvoked = FALSE
IdleEmbed == response = [status |-> "timeout", body |-> NoBody] /\ embedding = NotCalled
IdleAssembly == objects = <<>> /\ assembled = NotAssembled

(***************************************************************************)
(* SpecEmbed: get_embedding_for_text alone, of either script, under every  *)
(* extraction configuration, on every response.                            *)
(***************************************************************************)
InitEmbed ==
    /\ script \in {"test2", "evaluate"}
    /\ pc = "embed"
    /\ E5_VECTOR_KEY_IN_RESPONSE \in KeyConfigs
    /\ IdleRun /\ IdleIngest /\ collection = AbsentCollection /\ prior = collection
    /\ IdleSearch /\ IdleEmbed /\ IdleAssembly

CallEmbedding ==
    /\ pc = "embed"
    /\ \E resp \in Responses :
         /\ response' = resp
         /\ embedding' = get_embedding_for_text(script, E5_VECTOR_KEY_IN_RESPONSE, resp)
    /\ UNCHANGED <<runVars, ingestVars, searchVars, assemblyVars>>

NextEmbed == CallEmbedding

SpecEmbed == InitEmbed /\ [][NextEmbed]_vars

(***************************************************************************)
(* Result assembly (evaluate.py, the body of the try after near_vector).   *)
(***************************************************************************)
\* one returned object: the value of its original_doc_id property ("None" when
\* the property is absent, "" when it is empty), its metadata.score, and
\* whether reading it raises
Hit(id, score) == [id |-> id, score |-> score, raises |-> FALSE]
UnreadableHit == [id |-> "None", score |-> 1, raises |-> TRUE]
HitKinds ==
    {Hit(d, sc) : d \in DocIds, sc \in Scores}
    \cup {Hit("None", 1), Hit("", 1), UnreadableHit}

\* Python truth value of the property read
Truthy(id) == id # "None" /\ id # ""

\* the objects of one collection carry distinct stable ids (the corpus is a
\* dict and the rebuild empties the collection)
DistinctIds(hits) ==
    \A i, j \in 1..Len(hits) :
        (i # j /\ Truthy(hits[i].id) /\ Truthy(hits[j].id)) => hits[i].id # hits[j].id

DropsQueryOnMissingId(m, h) ==
    IF h.raises \/ ~Truthy(h.id) THEN [mapping |-> m, raised |-> TRUE]
    ELSE [mapping |-> (h.id :> h.score) @@ m, raised |-> FALSE]

\* one iteration of `for obj in response.objects`
ReadHit(m, h) ==
    IF h.raises THEN [mapping |-> m, raised |-> TRUE]
    ELSE IF Truthy(h.id) THEN [mapping |-> (h.id :> h.score) @@ m, raised |-> FALSE]
    ELSE [mapping |-> m, raised |-> FALSE]

RECURSIVE ReadHits(_, _, _)
ReadHits(hits, i, m) ==
    IF i > Len(hits) THEN [mapping |-> m, raised |-> FALSE]
    ELSE LET r == ReadHit(m, hits[i]) IN
         IF r.raised THEN r ELSE ReadHits(hits, i + 1, r.mapping)

\* results[query_id] = {} followed by the loop over response.objects:
\* the mapping left in results[query_id], and whether the loop raised
BuildSearchResult(hits) == ReadHits(hits, 1, <<>>)

(***************************************************************************)
(* SpecAssembly: the result assembly alone, on every list of hits.         *)
(***************************************************************************)
InitAssembly ==
    /\ script = "evaluate"
    /\ pc = "assemble"
    /\ E5_VECTOR_KEY_IN_RESPONSE = "vector"
    /\ IdleRun /\ IdleIngest /\ collection = AbsentCollection /\ prior = collection
    /\ IdleSearch /\ IdleEmbed /\ IdleAssembly

\* near_vector returns one more object
ReturnHit ==
    /\ pc = "assemble"
    /\ Len(objects) < MaxHits
    /\ \E h \in HitKinds :
         /\ DistinctIds(Append(objects, h))
         /\ objects' = Append(objects, h)
    /\ assembled' = NotAssembled
    /\ UNCHANGED <<runVars, ingestVars, searchVars, embedVars>>

AssembleResult ==
    /\ pc = "assemble"
    /\ ~assembled.done
    /\ assembled' = [mapping |-> BuildSearchResult(objects).mapping,
                     raised |-> BuildSearchResult(objects).raised,
                     done |-> TRUE]
    /\ UNCHANGED <<runVars, ingestVars, searchVars, embedVars, objects>>

NextAssembly == ReturnHit \/ AssembleResult

SpecAssembly == InitAssembly /\ [][NextAssembly]_vars

(***************************************************************************)
(* Steps the two scripts share.                                            *)
(***************************************************************************)
\* exit(status), or the end of the script (status 0)
Exit(status) == pc' = "exited" /\ exitStatus' = status

\* the tags of what get_embedding_for_text can give back to a run
EmbeddingOutcomes ==
    {get_embedding_for_text(script, E5_VECTOR_KEY_IN_RESPONSE, r).tag : r \in Responses}

\* GenericDataLoader(...).load(split="test"), and its except branch
LoadDataset ==
    /\ pc = "load"
    /\ \/ /\ \E n \in 0..MaxDocs : corpus' = SubSeq(DocIdSeq, 1, n)
          /\ \E n \in 0..Len(QueryIdSeq) : queries' = SubSeq(QueryIdSeq, 1, n)
          /\ pc' = "connect"
          /\ UNCHANGED <<exitStatus, fatal>>
       \/ /\ fatal' = "load"
          /\ Exit(1)
          /\ UNCHANGED <<corpus, queries>>
    /\ UNCHANGED <<script, E5_VECTOR_KEY_IN_RESPONSE, client, closeCount, uncaught,
                   collection, prior, batch, docIdx, num_inserted, num_skipped, embedFailed,
                   addFailed, flushFailed, queryIdx, results, num_queries_processed,
                   num_queries_skipped, searchFailed, evaluateInvoked,
                   embedVars, assemblyVars>>

\* client = weaviate.connect_to_local(...); client.is_live(), and the except branch
Connect ==
    /\ pc = "connect"
    /\ \/ /\ client' = "open"                  \* both calls return
          /\ pc' = IF script = "test2" THEN "rebuild" ELSE "get_collection"
          /\ UNCHANGED <<exitStatus, fatal>>
       \/ /\ client' = "None"                  \* connect_to_local raises
          /\ fatal' = "connect"
          /\ Exit(1)
       \/ /\ client' = "open"                  \* connected, is_live raises
          /\ fatal' = "connect"
          /\ Exit(1)
    /\ UNCHANGED <<script, E5_VECTOR_KEY_IN_RESPONSE, closeCount, uncaught,
                   ingestVars, searchVars, embedVars, assemblyVars>>

(***************************************************************************)
(* The ingestion run, src/test2.py.                                        *)
(***************************************************************************)
InitIngest ==
    /\ script = "test2"
    /\ pc = "download"
    /\ E5_VECTOR_KEY_IN_RESPONSE \in KeyConfigs
    /\ IdleRun /\ IdleIngest /\ collection \in PriorCollections /\ prior = collection
    /\ IdleSearch /\ IdleEmbed /\ IdleAssembly

\* download_and_unzip, and its except branch
Download ==
    /\ pc = "download"
    /\ \/ pc' = "load" /\ UNCHANGED <<exitStatus, fatal>>
       \/ fatal' = "download" /\ Exit(1)
    /\ UNCHANGED <<script, E5_VECTOR_KEY_IN_RESPONSE, client, closeCount, uncaught,
                   ingestVars, searchVars, embedVars, assemblyVars>>

KeepsObjectsOnDelete(coll, failAt) ==
    IF failAt = "exists" THEN [collection |-> coll, raised |-> TRUE]
    ELSE IF coll.exists /\ failAt = "delete" THEN [collection |-> coll, raised |-> TRUE]
    ELSE IF failAt = "create" THEN [collection |-> AbsentCollection, raised |-> TRUE]
    ELSE [collection |-> [exists |-> TRUE, schema |-> FixedSchema,
                          objects |-> coll.objects],
          raised |-> FALSE]

SwallowsCreateFailure(coll, failAt) ==
    IF failAt = "exists" THEN [collection |-> coll, raised |-> TRUE]
    ELSE IF coll.exists /\ failAt = "delete" THEN [collection |-> coll, raised |-> TRUE]
    ELSE IF failAt = "create" THEN [collection |-> AbsentCollection, raised |-> FALSE]
    ELSE [collection |-> [exists |-> TRUE, schema |-> FixedSchema, objects |-> <<>>],
          raised |-> FALSE]

RecreateIfMissing(coll, failAt) ==
    IF failAt = "exists" THEN [collection |-> coll, raised |-> TRUE]
    ELSE IF coll.exists THEN [collection |-> coll, raised |-> FALSE]
    ELSE IF failAt = "create" THEN [collection |-> AbsentCollection, raised |-> TRUE]
    ELSE [collection |-> [exists |-> TRUE, schema |-> FixedSchema, objects |-> <<>>],
          raised |-> FALSE]

\* the try body of step 5: exists, delete, create; failAt names the call that
\* raises ("none": no call raises)
RecreateCollection(coll, failAt) ==
    IF failAt = "exists" THEN [collection |-> coll, raised |-> TRUE]
    ELSE IF coll.exists /\ failAt = "delete" THEN [collection |-> coll, raised |-> TRUE]
    ELSE IF failAt = "create" THEN [collection |-> AbsentCollection, raised |-> TRUE]
    ELSE [collection |-> [exists |-> TRUE, schema |-> FixedSchema, objects |-> <<>>],
          raised |-> FALSE]

\* step 5 with its except branch, then documents_collection = collections.get
Rebuild ==
    /\ pc = "rebuild"
    /\ \E failAt \in {"none", "exists", "delete", "create"} :
         LET r == RecreateCollection(collection, failAt) IN
         /\ collection' = r.collection
         /\ IF r.raised
            THEN /\ fatal' = "collection"
                 /\ client' = "closed"
                 /\ closeCount' = closeCount + 1
                 /\ Exit(1)
            ELSE /\ pc' = "ingest"
                 /\ UNCHANGED <<fatal, client, closeCount, exitStatus>>
    /\ UNCHANGED <<script, E5_VECTOR_KEY_IN_RESPONSE, uncaught, corpus, prior, batch, docIdx,
                   num_inserted, num_skipped, embedFailed, addFailed, flushFailed,
                   searchVars, embedVars, assemblyVars>>

\* the batch sends every object it still holds; each is stored or rejected
Drained(coll, queued, rejected) ==
    [coll EXCEPT !.objects = coll.objects \o SelectSeq(queued, LAMBDA d : d \notin rejected)]

Range(f) == {f[i] : i \in DOMAIN f}

CountsBeforeAdd(tag, addRaises) ==
    IF tag = "vector"
    THEN IF addRaises THEN [inserted |-> 1, skipped |-> 1, queued |-> FALSE]
         ELSE [inserted |-> 1, skipped |-> 0, queued |-> TRUE]
    ELSE [inserted |-> 0, skipped |-> 1, queued |-> FALSE]

SkipsUncounted(tag, addRaises) ==
    IF tag = "vector"
    THEN IF addRaises THEN [inserted |-> 0, skipped |-> 1, queued |-> FALSE]
         ELSE [inserted |-> 1, skipped |-> 0, queued |-> TRUE]
    ELSE [inserted |-> 0, skipped |-> 0, queued |-> FALSE]

\* the body of the for loop once get_embedding_for_text has returned
\* (tag "vector" or "None"): what it adds to the counters and to the batch
IngestOne(tag, addRaises) ==
    IF tag = "vector"
    THEN IF addRaises THEN [inserted |-> 0, skipped |-> 1, queued |-> FALSE]
         ELSE [inserted |-> 1, skipped |-> 0, queued |-> TRUE]
    ELSE [inserted |-> 0, skipped |-> 1, queued |-> FALSE]

\* one iteration of the for loop; an exception get_embedding_for_text lets out
\* leaves the with block (the batch sends what it holds) and ends the script
IngestDocument ==
    /\ pc = "ingest"
    /\ docIdx < Len(corpus)
    /\ LET doc_id == corpus[docIdx + 1] IN
       \E tag \in EmbeddingOutcomes, addRaises \in BOOLEAN :
         IF tag = "raise"
         THEN /\ ~addRaises
              /\ \E rejected \in SUBSET Range(batch) :
                   /\ collection' = Drained(collection, batch, rejected)
                   /\ flushFailed' = flushFailed \cup rejected
              /\ batch' = <<>>
              /\ embedFailed' = embedFailed \cup {doc_id}
              /\ uncaught' = "NameError"
              /\ Exit(1)
              /\ UNCHANGED <<docIdx, num_inserted, num_skipped, addFailed>>
         ELSE LET r == IngestOne(tag, addRaises) IN
              /\ tag = "None" => ~addRaises
              /\ num_inserted' = num_inserted + r.inserted
              /\ num_skipped' = num_skipped + r.skipped
              /\ batch' = IF r.queued THEN Append(batch, doc_id) ELSE batch
              /\ embedFailed' = IF tag = "None" THEN embedFailed \cup {doc_id}
                                ELSE embedFailed
              /\ addFailed' = IF tag = "vector" /\ addRaises THEN addFailed \cup {doc_id}
                              ELSE addFailed
              /\ docIdx' = docIdx + 1
              /\ UNCHANGED <<collection, flushFailed, uncaught, pc, exitStatus>>
    /\ UNCHANGED <<script, E5_VECTOR_KEY_IN_RESPONSE, client, closeCount, fatal, corpus, prior,
                   searchVars, embedVars, assemblyVars>>

\* the dynamic batch sends its oldest queued object in the background
BatchSend ==
    /\ pc = "ingest"
    /\ batch # <<>>
    /\ \E ok \in BOOLEAN :
         /\ collection' = Drained(collection, <<Head(batch)>>,
                                  IF ok THEN {} ELSE {Head(batch)})
         /\ flushFailed' = IF ok THEN flushFailed ELSE flushFailed \cup {Head(batch)}
    /\ batch' = Tail(batch)
    /\ UNCHANGED <<runVars, corpus, prior, docIdx, num_inserted, num_skipped, embedFailed,
                   addFailed, searchVars, embedVars, assemblyVars>>

\* the loop is over: the with block exits (the batch sends what it holds), the
\* summary is logged, the client is closed and the script ends
FinishIngestion ==
    /\ pc = "ingest"
    /\ docIdx = Len(corpus)
    /\ \E rejected \in SUBSET Range(batch) :
         /\ collection' = Drained(collection, batch, rejected)
         /\ flushFailed' = flushFailed \cup rejected
    /\ batch' = <<>>
    /\ client' = "closed"
    /\ closeCount' = closeCount + 1
    /\ Exit(0)
    /\ UNCHANGED <<script, E5_VECTOR_KEY_IN_RESPONSE, fatal, uncaught, corpus, prior, docIdx,
                   num_inserted, num_skipped, embedFailed, addFailed,
                   searchVars, embedVars, assemblyVars>>

NextIngest ==
    \/ Download
    \/ LoadDataset
    \/ Connect
    \/ Rebuild
    \/ IngestDocument
    \/ BatchSend
    \/ FinishIngestion

SpecIngest == InitIngest /\ [][NextIngest]_vars

(***************************************************************************)
(* The evaluation run, src/evaluate.py.                                    *)
(***************************************************************************)
InitEval ==
    /\ script = "evaluate"
    /\ pc = "load"
    /\ E5_VECTOR_KEY_IN_RESPONSE \in KeyConfigs
    /\ IdleRun /\ IdleIngest /\ collection = AbsentCollection /\ prior = collection
    /\ IdleSearch /\ IdleEmbed /\ IdleAssembly

\* documents_collection = client.collections.get(...), and its except branch
GetCollection ==
    /\ pc = "get_collection"
    /\ \/ pc' = "search" /\ UNCHANGED <<client, closeCount, exitStatus, fatal>>
       \/ /\ fatal' = "collection"
          /\ client' = "closed"
          /\ closeCount' = closeCount + 1
          /\ Exit(1)
    /\ UNCHANGED <<script, E5_VECTOR_KEY_IN_RESPONSE, uncaught,
                   ingestVars, searchVars, embedVars, assemblyVars>>

\* the lists of objects near_vector returns within a run
RunHitLists == {h \in SeqUpTo(HitKinds, MaxRunHits) : DistinctIds(h)}

\* what the try block of one query can come to: near_vector raises
\* (entered FALSE: results[query_id] was never assigned), or it returns and the
\* hits are read
SearchOutcomes ==
    {[entered |-> FALSE, mapping |-> <<>>, raised |-> TRUE]}
    \cup {[entered |-> TRUE, mapping |-> BuildSearchResult(h).mapping,
           raised |-> BuildSearchResult(h).raised] : h \in RunHitLists}

\* the try/except of one query with outcome o: the results mapping it leaves
\* and what it adds to the counters
SearchOne(res, query_id, o) ==
    [results |-> IF o.entered THEN (query_id :> o.mapping) @@ res ELSE res,
     processed |-> IF o.raised THEN 0 ELSE 1,
     skipped |-> IF o.raised THEN 1 ELSE 0]

\* one iteration of the for loop over queries
SearchQuery ==
    /\ pc = "search"
    /\ queryIdx < Len(queries)
    /\ LET query_id == queries[queryIdx + 1] IN
       \E tag \in EmbeddingOutcomes :
         IF tag = "raise"
         THEN /\ uncaught' = "NameError"
              /\ Exit(1)
              /\ UNCHANGED <<queryIdx, results, num_queries_processed,
                             num_queries_skipped, searchFailed>>
         ELSE IF tag = "None"
         THEN /\ num_queries_skipped' = num_queries_skipped + 1
              /\ queryIdx' = queryIdx + 1
              /\ UNCHANGED <<results, num_queries_processed, searchFailed,
                             uncaught, pc, exitStatus>>
         ELSE \E o \in SearchOutcomes :
              LET r == SearchOne(results, query_id, o) IN
              /\ results' = r.results
              /\ num_queries_processed' = num_queries_processed + r.processed
              /\ num_queries_skipped' = num_queries_skipped + r.skipped
              /\ searchFailed' = IF o.raised THEN searchFailed \cup {query_id}
                                 ELSE searchFailed
              /\ queryIdx' = queryIdx + 1
              /\ UNCHANGED <<uncaught, pc, exitStatus>>
    /\ UNCHANGED <<script, E5_VECTOR_KEY_IN_RESPONSE, client, closeCount, fatal,
                   queries, evaluateInvoked, ingestVars, embedVars, assemblyVars>>

\* `results is None`, which no dict satisfies
ResultsIsNone(res) == FALSE

\* `not results`: the results mapping has no key
NoSearchResults(res) == res = <<>>

\* `if not results:` after the loop
NoResults ==
    /\ pc = "search"
    /\ queryIdx = Len(queries)
    /\ NoSearchResults(results)
    /\ fatal' = "no_results"
    /\ client' = "closed"
    /\ closeCount' = closeCount + 1
    /\ Exit(1)
    /\ UNCHANGED <<script, E5_VECTOR_KEY_IN_RESPONSE, uncaught,
                   ingestVars, searchVars, embedVars, assemblyVars>>

\* the final try/except/finally: retriever.evaluate returns or raises, the
\* client is closed and the script ends
Evaluate ==
    /\ pc = "search"
    /\ queryIdx = Len(queries)
    /\ ~NoSearchResults(results)
    /\ evaluateInvoked' = TRUE
    /\ \E raises \in BOOLEAN : fatal' = IF raises THEN "evaluate" ELSE fatal
    /\ client' = "closed"
    /\ closeCount' = closeCount + 1
    /\ Exit(0)
    /\ UNCHANGED <<script, E5_VECTOR_KEY_IN_RESPONSE, uncaught, ingestVars, queries,
                   queryIdx, results, num_queries_processed, num_queries_skipped,
                   searchFailed, embedVars, assemblyVars>>

NextEval ==
    \/ LoadDataset
    \/ Connect
    \/ GetCollection
    \/ SearchQuery
    \/ NoResults
    \/ Evaluate

SpecEval == InitEval /\ [][NextEval]_vars

(***************************************************************************)
(* SpecRebuild: step 5 of test2.py (delete if it exists, then create) run  *)
(* on an open connection once and then once more, from every prior state   *)
(* of the collection.                                                      *)
(***************************************************************************)
\* what the collection can hold before a rebuild: nothing, or objects of any
\* ids under the fixed or another schema
RebuildPriors ==
    {AbsentCollection}
    \cup {[exists |-> TRUE, schema |-> sc, objects |-> o] :
            sc \in {FixedSchema, "stale"},
            o \in SeqUpTo(DocIds \cup {"d9"}, MaxDocs)}

InitRebuild ==
    /\ script = "test2"
    /\ pc = "rebuild"
    /\ E5_VECTOR_KEY_IN_RESPONSE = "vector"
    /\ client = "open" /\ closeCount = 0 /\ exitStatus = -1
    /\ fatal = "none" /\ uncaught = "none"
    /\ IdleIngest /\ collection \in RebuildPriors /\ prior = collection
    /\ IdleSearch /\ IdleEmbed /\ IdleAssembly

\* step 5 with its except branch, run for the first or the second time
RebuildInARow ==
    /\ pc \in {"rebuild", "rebuilt_once"}
    /\ \E failAt \in {"none", "exists", "delete", "create"} :
         LET r == RecreateCollection(collection, failAt) IN
         /\ collection' = r.collection
         /\ IF r.raised
            THEN /\ fatal' = "collection"
                 /\ client' = "closed"
                 /\ closeCount' = closeCount + 1
                 /\ Exit(1)
            ELSE /\ pc' = IF pc = "rebuild" THEN "rebuilt_once" ELSE "rebuilt_twice"
                 /\ UNCHANGED <<fatal, client, closeCount, exitStatus>>
    /\ UNCHANGED <<script, E5_VECTOR_KEY_IN_RESPONSE, uncaught, corpus, prior, batch,
                   docIdx, num_inserted, num_skipped, embedFailed, addFailed,
                   flushFailed, searchVars, embedVars, assemblyVars>>

NextRebuild == RebuildInARow

SpecRebuild == InitRebuild /\ [][NextRebuild]_vars

(***************************************************************************)
(* Properties.                                                             *)
(***************************************************************************)
Count(d, seq) == Cardinality({i \in DOMAIN seq : seq[i] = d})
Finished == pc = "exited" /\ exitStatus = 0
Failed == pc = "exited" /\ exitStatus # 0

\* C1: during ingestion every embedding failure comes back as "no vector"
\* (get_embedding_for_text lets no exception out), every failed document is
\* counted as skipped, and a run that logged no fatal error has taken every
\* document of the corpus.
C1_EmbeddingFailureNeverAborts ==
    /\ uncaught = "none"
    /\ num_skipped = Cardinality(embedFailed) + Cardinality(addFailed)
    /\ (pc = "exited" /\ fatal = "none") => docIdx = Len(corpus)

\* C2: when ingestion finishes, num_inserted + num_skipped is the corpus size,
\* no document whose embedding call failed is in the index, and every failed
\* document raised num_skipped by exactly one (num_skipped is the number of
\* documents that failed, at the embedding call or at add_object).
C2_CountsAddUp ==
    Finished =>
        /\ num_inserted + num_skipped = Len(corpus)
        /\ \A d \in embedFailed : Count(d, collection.objects) = 0
        /\ embedFailed \cap addFailed = {}
        /\ num_skipped = Cardinality(embedFailed) + Cardinality(addFailed)

\* three documents, the second one's embedding call fails: inserted = 2,
\* skipped = 1, the index holds exactly the ids of documents 1 and 3
C2_Witness ==
    /\ Finished
    /\ corpus = <<"d1", "d2", "d3">>
    /\ embedFailed = {"d2"}
    /\ num_inserted = 2 /\ num_skipped = 1
    /\ collection.objects = <<"d1", "d3">>

\* C3 as stated: after a complete ingestion run every document whose
\* embedding call succeeded is in the index exactly once.
C3_EveryEmbeddedDocumentIndexed ==
    Finished =>
        \A d \in Range(corpus) \ embedFailed : Count(d, collection.objects) = 1

\* C3 amended: after a complete ingestion run every document whose embedding
\* call succeeded, whose add_object did not raise and whose object the batch
\* sent successfully is in the index exactly once, and the index holds no
\* other object, whatever it held before the run.
C3_WrittenDocumentsIndexedOnce ==
    Finished =>
        LET lost == embedFailed \cup addFailed \cup flushFailed IN
        /\ \A d \in Range(corpus) \ lost : Count(d, collection.objects) = 1
        /\ \A d \in lost : Count(d, collection.objects) = 0
        /\ Range(collection.objects) \subseteq Range(corpus)
        /\ collection.exists /\ collection.schema = FixedSchema

C3_Witness ==
    /\ Finished
    /\ corpus = <<"d1", "d2", "d3">>
    /\ embedFailed = {} /\ addFailed = {"d2"} /\ flushFailed = {}
    /\ collection.objects = <<"d1", "d3">>

\* C4: a query whose search step raised (at near_vector or while the hits
\* were read) is not a key of results.
C4_FailedQueryAbsent ==
    \A q \in searchFailed : q \notin DOMAIN results

\* C5: once the client connection has been acquired, it has been closed
\* exactly once when the process has ended, on every exit path.
C5_ClosedExactlyOnce ==
    (pc = "exited" /\ client # "None") => closeCount = 1

\* C6: a run that logged a fatal error ends with a non-zero exit status.
C6_FatalMeansNonZeroExit ==
    (pc = "exited" /\ fatal # "none") => exitStatus # 0

\* C7: when no hit fails to be read, the search succeeds and the SearchResult
\* maps exactly the stable ids of the hits that carry one, each to that hit's
\* score; the hits without a stable id are dropped, so the number of entries is
\* the number of hits that carry a stable id.
C7_SearchResultShape ==
    (assembled.done /\ \A i \in 1..Len(objects) : ~objects[i].raises) =>
        LET carrying == {i \in 1..Len(objects) : Truthy(objects[i].id)} IN
        /\ ~assembled.raised
        /\ DOMAIN assembled.mapping = {objects[i].id : i \in carrying}
        /\ \A i \in carrying : assembled.mapping[objects[i].id] = objects[i].score
        /\ Cardinality(DOMAIN assembled.mapping) = Cardinality(carrying)

\* five hits, one without the stable id: exactly four entries
C7_Witness ==
    /\ assembled.done /\ ~assembled.raised
    /\ Len(objects) = 5
    /\ Cardinality({i \in 1..5 : objects[i].id = "None" /\ ~objects[i].raises}) = 1
    /\ Cardinality({i \in 1..5 : Truthy(objects[i].id)}) = 4
    /\ Cardinality(DOMAIN assembled.mapping) = 4

\* the value the configured extraction takes from the response is a list of
\* numbers
NumericSequence(key, resp) ==
    /\ resp.status = "ok"
    /\ LET x == ExtractVector(key, resp.body) IN
       /\ x.kind = "list"
       /\ \A i \in 1..Len(x.items) : x.items[i] \in Numbers

\* C8: get_embedding_for_text gives a vector only when the extracted value is
\* a sequence of numbers; on every other response it gives None.
C8_OnlyNumericSequences ==
    (embedding # NotCalled /\ ~NumericSequence(E5_VECTOR_KEY_IN_RESPONSE, response))
        => embedding = None

\* C9: a run is FAILED only through a failure above the items: the dataset,
\* the connection, the collection, or a query set that is empty to begin with.
C9_PerItemFailuresNeverFail ==
    Failed =>
        \/ fatal \in {"download", "load", "connect", "collection"}
        \/ fatal = "no_results" /\ num_queries_skipped = 0

\* the payload that encodes vector V for an extraction configuration
Payload(key, V) == IF key = "None" THEN ListBody(V) ELSE DictBody(key, "list", V)

\* C10: under each extraction configuration, get_embedding_for_text applied
\* to the payload that encodes V for that configuration gives exactly V.
C10_RoundTrip ==
    \A V \in Vectors :
        (/\ embedding # NotCalled
         /\ response = [status |-> "ok", body |-> Payload(E5_VECTOR_KEY_IN_RESPONSE, V)])
            => embedding = Vector(V)

\* the empty vector under a named key comes back as the empty vector
C10_Witness ==
    /\ E5_VECTOR_KEY_IN_RESPONSE = "embedding"
    /\ response = [status |-> "ok", body |-> Payload("embedding", <<>>)]
    /\ embedding = Vector(<<>>)

\* the collection right after a rebuild: one collection of the configured
\* name, the fixed three-field schema, no records
FreshCollection == [exists |-> TRUE, schema |-> FixedSchema, objects |-> <<>>]

\* C11: from any prior state of the index, the rebuild step run once, and run
\* once more right after, ends with the collection existing, holding no
\* records and having the fixed schema: the second run changes nothing.
C11_RebuildIdempotent ==
    pc \in {"rebuilt_once", "rebuilt_twice"} => collection = FreshCollection

\* rebuilt twice in a row from a populated collection of another schema
C11_Witness ==
    /\ pc = "rebuilt_twice"
    /\ prior.exists /\ prior.schema = "stale" /\ prior.objects # <<>>
    /\ collection = FreshCollection

\* C12: a step in which batch.add_object raises counts that record as skipped
\* (num_skipped + 1, num_inserted unchanged), queues nothing, and leaves the
\* loop running at the next record of the corpus.
C12_AddFailureSkipsAndContinues ==
    [][addFailed' # addFailed =>
          /\ num_skipped' = num_skipped + 1
          /\ num_inserted' = num_inserted
          /\ batch' = batch
          /\ docIdx' = docIdx + 1
          /\ pc' = "ingest" /\ uncaught' = "none"]_vars

\* three documents, add_object raises for the first: the other two are
\* still processed and inserted
C12_Witness ==
    /\ Finished
    /\ corpus = <<"d1", "d2", "d3">>
    /\ addFailed = {"d1"} /\ embedFailed = {}
    /\ num_inserted = 2 /\ num_skipped = 1
    /\ docIdx = 3

\* the evaluation run has ended after its search loop (not at the load, the
\* connect or the get-collection step)
EndedAfterSearch ==
    /\ pc = "exited"
    /\ fatal \notin {"load", "connect", "collection"}
    /\ uncaught = "none"

\* C13: the metric evaluation is never invoked on an empty results mapping,
\* and a run whose search phase ended with an empty results mapping has
\* closed the index connection and ended in failure on the no-results error.
C13_EmptyResultsAbort ==
    /\ evaluateInvoked => results # <<>>
    /\ (EndedAfterSearch /\ results = <<>>) =>
          /\ ~evaluateInvoked
          /\ fatal = "no_results"
          /\ client = "closed" /\ closeCount = 1
          /\ exitStatus # 0

\* two queries, both skipped: the run aborts on the empty results mapping
C13_Witness ==
    /\ EndedAfterSearch
    /\ Len(queries) = 2 /\ num_queries_skipped = 2
    /\ results = <<>>
    /\ fatal = "no_results" /\ exitStatus = 1 /\ client = "closed"

\* the ingestion loop has written: a record was taken, queued, counted or sent
SomeWrite ==
    \/ docIdx > 0 \/ batch # <<>> \/ num_inserted > 0
    \/ addFailed # {} \/ flushFailed # {}

\* C14: in the ingestion run a record is written only after the collection
\* has been created with the fixed schema (what the index holds is then only
\* what the run wrote), no record is written at or before the rebuild step,
\* and a run whose delete or create step failed has written nothing.
C14_NoWriteBeforeCreate ==
    /\ SomeWrite =>
          /\ collection.exists /\ collection.schema = FixedSchema
          /\ Range(collection.objects) \subseteq Range(SubSeq(corpus, 1, docIdx))
    /\ pc \in {"download", "load", "connect", "rebuild"} =>
          (~SomeWrite /\ collection = prior)
    /\ fatal = "collection" =>
          (~SomeWrite /\ collection \in {prior, AbsentCollection})

\* a record reached the index of a run that found a populated collection of
\* another schema
C14_Witness ==
    /\ prior.exists /\ prior.schema = "stale" /\ prior.objects # <<>>
    /\ num_inserted > 0
    /\ collection.schema = FixedSchema
    /\ collection.objects = <<"d1">>

\* the search loop of the evaluation run has taken every query
SearchDone ==
    /\ queryIdx = Len(queries)
    /\ pc = "search" \/ EndedAfterSearch

\* C15: when the search phase has finished, processed + skipped is the number
\* of queries, results has exactly as many keys as queries were counted as
\* processed, and no query counted as skipped for a failed search has an entry.
C15_ResultsMatchProcessed ==
    SearchDone =>
        /\ num_queries_processed + num_queries_skipped = Len(queries)
        /\ Cardinality(DOMAIN results) = num_queries_processed
        /\ searchFailed \cap DOMAIN results = {}

\* C16: when ingestion has finished, num_inserted is the number of records
\* in the index.
C16_InsertedMatchesIndex ==
    Finished => num_inserted = Len(collection.objects)

====
